---- MODULE Spec2Model ----
(***************************************************************************)
(* JWT authentication core of the account service:                        *)
(*   common/utils/jwt/JwtHandler.py      issue / decode / refresh          *)
(*   common/utils/jwt/JwtPayload.py      payload model                     *)
(*   common/utils/jwt/JwtConfig.py       configuration                     *)
(*   account_service/middleware/AuthMiddleware.py   request gate           *)
(*   account_service/main.py             application assembly              *)
(*                                                                         *)
(* Python values that travel inside a token are tagged records of one      *)
(* shape, so that "a string where an integer is expected" is a value the   *)
(* model can hold.  A signature is identified by what it was computed      *)
(* over (key, algorithm, signing input): HMAC is taken to be collision     *)
(* free and unforgeable without the key.                                   *)
(***************************************************************************)
EXTENDS Integers, Sequences, FiniteSets, TLC

(***************************************************************************)
(* Bounds of the model.                                                    *)
(***************************************************************************)
\* Number of clock advances in one behaviour.
MaxTicks == 3
\* Number of times one refresh token is used again after its first use.
MaxReuse == 2
\* Largest max_concurrent of the ConcurrencyLimiter.
MaxConcurrent == 2
\* Largest reading of the millisecond clock, counted from the epoch.
MaxMillis == 2
\* Largest max_retries given to async_retry.
MaxRetries == 3

(***************************************************************************)
(* Program constants.                                                      *)
(***************************************************************************)
\* JwtHandler.create_token_pair: access_token_expire_minutes * 60
SecondsPerMinute == 60
\* JwtHandler.create_token_pair: refresh_token_expire_days * 24 * 3600
HoursPerDay == 24
SecondsPerHour == 3600
\* AuthMiddleware.dispatch: auth_header[7:]
BearerSlice == 7
\* SnowflakeIDGenerator.__init__: the widths of the fields of an ID
WorkerIdBits == 5
DatacenterIdBits == 5
SequenceBits == 12

SecondsPerDay == HoursPerDay * SecondsPerHour

(***************************************************************************)
(* Python values.                                                          *)
(***************************************************************************)
PyInt(n) == [t |-> "int", n |-> n, s |-> ""]
PyStr(s) == [t |-> "str", n |-> 0, s |-> s]
\* JSON null / Python None
PyNull == [t |-> "null", n |-> 0, s |-> ""]
\* a key that the mapping does not hold
Absent == [t |-> "absent", n |-> 0, s |-> ""]

Digit(d) ==
    CASE d = 0 -> "0" [] d = 1 -> "1" [] d = 2 -> "2" [] d = 3 -> "3"
      [] d = 4 -> "4" [] d = 5 -> "5" [] d = 6 -> "6" [] d = 7 -> "7"
      [] d = 8 -> "8" [] d = 9 -> "9"

RECURSIVE Decimal(_)
Decimal(n) == IF n < 10 THEN Digit(n) ELSE Decimal(n \div 10) \o Digit(n % 10)

\* Python str(): the identity on a str, the decimal numeral of an int.
Str(v) ==
    CASE v.t = "str" -> v
      [] v.t = "int" -> PyStr(Decimal(v.n))
      [] OTHER -> PyStr("None")

\* Optional[Dict[str, Any]]: None, or a dict given by its items.
PyNone == [none |-> TRUE, items |-> {}]
Dict(items) == [none |-> FALSE, items |-> items]

\* Python `extra or {}`: None and the empty dict are falsy.
OrEmptyDict(e) == IF e.none \/ e.items = {} THEN Dict({}) ELSE e

\* dict.get(key) on a dict of str -> str: the value, or None.
DictGet(e, key) ==
    IF e.none \/ ~(\E kv \in e.items : kv[1] = key) THEN PyNull
    ELSE PyStr((CHOOSE kv \in e.items : kv[1] = key)[2])

IsPrefix(p, s) == Len(p) <= Len(s) /\ SubSeq(s, 1, Len(p)) = p

(***************************************************************************)
(* python-jose, as JwtHandler calls it.                                    *)
(* A compact JWS is header.payload.signature; the header carries alg, the  *)
(* payload the claims.  json.dumps / json.loads is exact on the JSON       *)
(* native values used here (int, str, null, dict of str).                  *)
(***************************************************************************)
\* The MAC of signing input (hdr, claims) under key and algorithm alg.
Sign(key, alg, hdr, claims) ==
    [key |-> key, alg |-> alg, hdr |-> hdr, claims |-> claims]

\* A signature segment that is the MAC of nothing (a flipped character,
\* an empty segment).
NoSignature == Sign("<none>", "<none>", "<none>",
                    [sub |-> Absent, iat |-> Absent, exp |-> Absent,
                     token_type |-> "", extra |-> PyNone])

\* jwt.encode(claims, key, algorithm=algorithm)
jwt_encode(claims, key, algorithm) ==
    [wf |-> TRUE, alg |-> algorithm, claims |-> claims,
     sig |-> Sign(key, algorithm, algorithm, claims)]

\* int(claims[name]) inside jose's _validate_iat / _validate_exp:
\* ValueError (caught, JWTClaimsError) on a non numeric str, TypeError
\* (not caught) on None.
IntClaimError(v) ==
    CASE v.t = "str" -> "JWTError"
      [] v.t = "null" -> "TypeError"
      [] OTHER -> "ok"

\* jose _validate_exp: `if exp < (now - leeway): raise ExpiredSignatureError`
\* with leeway 0.
JoseExpPassed(exp, t) == exp < t

\* Variant of JwsVerified: the header's alg is not held against
\* `algorithms` (jwt.decode called without algorithms=).
JwsVerifiedAnyAlg(token, key, algorithms) ==
    /\ token.wf
    /\ token.sig = Sign(key, token.alg, token.alg, token.claims)

\* jws.verify: the token parses, its header's alg is among `algorithms`,
\* and the signature segment is the MAC of the token's own signing input
\* under `key` and the header's alg.
JwsVerified(token, key, algorithms) ==
    /\ token.wf
    /\ token.alg \in algorithms
    /\ token.sig = Sign(key, token.alg, token.alg, token.claims)

\* jwt.decode(token, key, algorithms=algorithms) read at clock value t.
\* Result kind: "ok" | "ExpiredSignatureError" | "JWTError" | "TypeError".
\* Order inside jose: jws.verify, then _validate_claims: iat, exp, sub.
jwt_decode(token, key, algorithms, t) ==
    LET c == token.claims IN
    IF ~JwsVerified(token, key, algorithms) THEN "JWTError"
    ELSE IF IntClaimError(c.iat) # "ok" THEN IntClaimError(c.iat)
    ELSE IF IntClaimError(c.exp) # "ok" THEN IntClaimError(c.exp)
    ELSE IF c.exp.t = "int" /\ JoseExpPassed(c.exp.n, t)
         THEN "ExpiredSignatureError"
    ELSE IF c.sub.t \notin {"absent", "str"} THEN "JWTError"
    ELSE "ok"

(***************************************************************************)
(* JwtPayload (pydantic model).                                            *)
(***************************************************************************)
NoPayload ==
    [sub |-> Absent, exp |-> 0, iat |-> 0, token_type |-> "", extra |-> PyNone]

\* JwtPayload(**raw) validates: sub a str, exp and iat ints, all required.
PayloadValid(raw) ==
    /\ raw.sub.t = "str"
    /\ raw.exp.t = "int"
    /\ raw.iat.t = "int"

\* Variant of JwtPayload: token_type is left at its default.
JwtPayload_default_type(raw) ==
    [sub |-> raw.sub, exp |-> raw.exp.n, iat |-> raw.iat.n,
     token_type |-> "access",
     extra |-> raw.extra]

JwtPayload(raw) ==
    [sub |-> raw.sub, exp |-> raw.exp.n, iat |-> raw.iat.n,
     token_type |-> IF raw.token_type = "" THEN "access" ELSE raw.token_type,
     extra |-> raw.extra]

(***************************************************************************)
(* JwtConfig and JwtHandler.                                               *)
(***************************************************************************)
\* JwtConfig is a plain dataclass: any int is accepted for the lifetimes.
JwtConfig(secret_key, algorithm, minutes, days) ==
    [secret_key |-> secret_key, algorithm |-> algorithm,
     access_token_expire_minutes |-> minutes,
     refresh_token_expire_days |-> days]

\* JwtHandler._create_token, with `now` the value _now_timestamp() returned.
_create_token(cfg, user_id, token_type, expire_seconds, extra, t) ==
    jwt_encode([sub |-> Str(user_id),
               iat |-> PyInt(t),
               exp |-> PyInt(t + expire_seconds),
               token_type |-> token_type,
               extra |-> OrEmptyDict(extra)],
              cfg.secret_key, cfg.algorithm)

AccessExpireSeconds(cfg) == cfg.access_token_expire_minutes * SecondsPerMinute
RefreshExpireSeconds(cfg) == cfg.refresh_token_expire_days * HoursPerDay * SecondsPerHour

\* Variant of create_token_pair: the two lifetimes are exchanged.
create_token_pair_swapped(cfg, user_id, extra, t1, t2) ==
    [access_token |-> _create_token(cfg, user_id, "access", RefreshExpireSeconds(cfg), extra, t1),
     refresh_token |-> _create_token(cfg, user_id, "refresh", AccessExpireSeconds(cfg), extra, t2),
     token_type |-> "Bearer",
     expires_in |-> AccessExpireSeconds(cfg)]

\* JwtHandler.create_token_pair; each _create_token reads the clock itself:
\* t1 for the access token, t2 for the refresh token.
create_token_pair(cfg, user_id, extra, t1, t2) ==
    [access_token |-> _create_token(cfg, user_id, "access", AccessExpireSeconds(cfg), extra, t1),
     refresh_token |-> _create_token(cfg, user_id, "refresh", RefreshExpireSeconds(cfg), extra, t2),
     token_type |-> "Bearer",
     expires_in |-> AccessExpireSeconds(cfg)]

\* Variant of decode_token: the token_type claim is not compared with
\* expected_type.
decode_token_any_type(cfg, token, expected_type, t) ==
    LET j == jwt_decode(token, cfg.secret_key, {cfg.algorithm}, t) IN
    IF j = "ExpiredSignatureError" THEN [kind |-> "TokenExpiredError", payload |-> NoPayload]
    ELSE IF j = "JWTError" THEN [kind |-> "TokenInvalidError", payload |-> NoPayload]
    ELSE IF j # "ok" THEN [kind |-> j, payload |-> NoPayload]
    ELSE IF ~PayloadValid(token.claims)
         THEN [kind |-> "ValidationError", payload |-> NoPayload]
    ELSE [kind |-> "ok", payload |-> JwtPayload(token.claims)]

\* JwtHandler.decode_token.  kind: "ok" (payload returned),
\* "TokenExpiredError", "TokenInvalidError", or an exception the method
\* does not catch: "TypeError" (from jose), "ValidationError" (pydantic).
decode_token(cfg, token, expected_type, t) ==
    LET j == jwt_decode(token, cfg.secret_key, {cfg.algorithm}, t) IN
    IF j = "ExpiredSignatureError" THEN [kind |-> "TokenExpiredError", payload |-> NoPayload]
    ELSE IF j = "JWTError" THEN [kind |-> "TokenInvalidError", payload |-> NoPayload]
    ELSE IF j # "ok" THEN [kind |-> j, payload |-> NoPayload]
    ELSE IF token.claims.token_type # expected_type
         THEN [kind |-> "TokenInvalidError", payload |-> NoPayload]
    ELSE IF ~PayloadValid(token.claims)
         THEN [kind |-> "ValidationError", payload |-> NoPayload]
    ELSE [kind |-> "ok", payload |-> JwtPayload(token.claims)]

NoPair ==
    LET none == [wf |-> FALSE, alg |-> "", claims |-> NoSignature.claims,
                 sig |-> NoSignature] IN
    [access_token |-> none, refresh_token |-> none, token_type |-> "",
     expires_in |-> 0]

\* Variant of refresh_token: the new pair is issued without the extra of
\* the presented token.
refresh_token_without_extra(cfg, token, t0, t1, t2) ==
    LET d == decode_token(cfg, token, "refresh", t0) IN
    IF d.kind # "ok" THEN [kind |-> d.kind, pair |-> NoPair]
    ELSE [kind |-> "ok",
          pair |-> create_token_pair(cfg, d.payload.sub, PyNone, t1, t2)]

\* Variant of refresh_token: the new pair is stamped with the issue time
\* of the presented token instead of the clock.
refresh_token_old_iat(cfg, token, t0, t1, t2) ==
    LET d == decode_token(cfg, token, "refresh", t0) IN
    IF d.kind # "ok" THEN [kind |-> d.kind, pair |-> NoPair]
    ELSE [kind |-> "ok",
          pair |-> create_token_pair(cfg, d.payload.sub, d.payload.extra,
                                     d.payload.iat, d.payload.iat)]

\* Variant of refresh_token: the presented token is verified as an access
\* token.
refresh_token_expects_access(cfg, token, t0, t1, t2) ==
    LET d == decode_token(cfg, token, "access", t0) IN
    IF d.kind # "ok" THEN [kind |-> d.kind, pair |-> NoPair]
    ELSE [kind |-> "ok",
          pair |-> create_token_pair(cfg, d.payload.sub, d.payload.extra, t1, t2)]

\* Variant of refresh_token: the new refresh token expires when the
\* presented one does.
refresh_token_capped(cfg, token, t0, t1, t2) ==
    LET d == decode_token(cfg, token, "refresh", t0) IN
    IF d.kind # "ok" THEN [kind |-> d.kind, pair |-> NoPair]
    ELSE [kind |-> "ok",
          pair |-> [create_token_pair(cfg, d.payload.sub, d.payload.extra, t1, t2)
                      EXCEPT !.refresh_token =
                        _create_token(cfg, d.payload.sub, "refresh",
                                      d.payload.exp - t2, d.payload.extra, t2)]]

\* JwtHandler.refresh_token: decode at t0, then a new pair at t1, t2.
refresh_token(cfg, token, t0, t1, t2) ==
    LET d == decode_token(cfg, token, "refresh", t0) IN
    IF d.kind # "ok" THEN [kind |-> d.kind, pair |-> NoPair]
    ELSE [kind |-> "ok",
          pair |-> create_token_pair(cfg, d.payload.sub, d.payload.extra, t1, t2)]

(***************************************************************************)
(* AuthMiddleware (account_service/middleware/AuthMiddleware.py).          *)
(* Paths and header prefixes are sequences of characters.                  *)
(***************************************************************************)
ApiUser == <<"/", "a", "p", "i", "/", "a", "c", "c", "o", "u", "n", "t", "/", "u", "s", "e", "r", "/">>
VerifyCode == <<"/", "v", "e", "r", "i", "f", "y", "_", "c", "o", "d", "e">>
PathLogin == ApiUser \o <<"l", "o", "g", "i", "n">>
PathRegister == ApiUser \o <<"r", "e", "g", "i", "s", "t", "e", "r">>
PathList == ApiUser \o <<"l", "i", "s", "t">>
PathHealth == <<"/", "h", "e", "a", "l", "t", "h">>

WHITELIST ==
    << PathLogin,
       PathRegister,
       PathLogin \o VerifyCode,
       PathRegister \o VerifyCode,
       <<"/", "d", "o", "c", "s">>,
       <<"/", "o", "p", "e", "n", "a", "p", "i", ".", "j", "s", "o", "n">>,
       PathHealth >>

\* Variant of Whitelisted: the path is compared for equality.
WhitelistedExact(path) == \E i \in 1..Len(WHITELIST) : WHITELIST[i] = path

\* any(path.startswith(w) for w in WHITELIST)
Whitelisted(path) == \E i \in 1..Len(WHITELIST) : IsPrefix(WHITELIST[i], path)

Bearer == <<"B", "e", "a", "r", "e", "r", " ">>

\* The three 401 messages of AuthMiddleware.dispatch (the source has them
\* in Chinese; transliterated here).
MsgMissing == "que shao ren zheng Token"
MsgExpired == "Token yi guo qi"
MsgInvalid == "Token wu xiao"

\* A string that is no compact JWS (no three segments, junk before the
\* header, the empty string): jose raises JWSError on it.
Unparsable ==
    [wf |-> FALSE, alg |-> "", claims |-> NoSignature.claims, sig |-> NoSignature]

\* An Authorization header: absent, or the string scheme ++ credential,
\* where scheme is a sequence of characters and the credential, when the
\* header has one, a token string.  A token string holds no space.
NoHeader == [present |-> FALSE, scheme |-> <<>>, hasCred |-> FALSE, cred |-> Unparsable]
Header(scheme, token) == [present |-> TRUE, scheme |-> scheme, hasCred |-> TRUE, cred |-> token]
BareHeader(scheme) == [present |-> TRUE, scheme |-> scheme, hasCred |-> FALSE, cred |-> Unparsable]

\* `not auth_header`: None or the empty string
HeaderFalsy(h) == ~h.present \/ (h.scheme = <<>> /\ ~h.hasCred)

\* Variant of HeaderStartsWithBearer: the scheme is compared without
\* regard to case.
HeaderStartsWithBearerAnyCase(h) ==
    \/ IsPrefix(Bearer, h.scheme)
    \/ IsPrefix(<<"b", "e", "a", "r", "e", "r", " ">>, h.scheme)

\* auth_header.startswith("Bearer ")
HeaderStartsWithBearer(h) == IsPrefix(Bearer, h.scheme)

\* auth_header[7:]
HeaderToken(h) ==
    IF Len(h.scheme) = BearerSlice /\ h.hasCred THEN h.cred ELSE Unparsable

NoIdentity == [set |-> FALSE, user_id |-> Absent, user_extra |-> PyNone]

GateResponse(outcome, status, message, next_calls, identity, raised) ==
    [outcome |-> outcome, status |-> status, message |-> message,
     next_calls |-> next_calls, identity |-> identity, raised |-> raised]

\* Variant of dispatch: a token sent to an allow-listed path is verified
\* too and its identity attached.
dispatch_identity_on_allowed(cfg, path, h, t) ==
    LET d == decode_token(cfg, HeaderToken(h), "access", t)
        id == IF HeaderStartsWithBearer(h) /\ d.kind = "ok"
              THEN [set |-> TRUE, user_id |-> d.payload.sub,
                    user_extra |-> d.payload.extra]
              ELSE NoIdentity
    IN
    IF Whitelisted(path)
    THEN GateResponse("ALLOWED_PATH", 0, "", 1, id, "")
    ELSE IF HeaderFalsy(h) \/ ~HeaderStartsWithBearer(h)
    THEN GateResponse("TOKEN_MISSING", 401, MsgMissing, 0, NoIdentity, "")
    ELSE CASE d.kind = "TokenExpiredError" ->
                GateResponse("TOKEN_EXPIRED", 401, MsgExpired, 0, NoIdentity, "")
           [] d.kind = "TokenInvalidError" ->
                GateResponse("TOKEN_INVALID", 401, MsgInvalid, 0, NoIdentity, "")
           [] d.kind = "ok" ->
                GateResponse("TOKEN_VALID", 0, "", 1, id, "")
           [] OTHER ->
                GateResponse("EXCEPTION", 500, "", 0, NoIdentity, d.kind)

\* Variant of dispatch: one except clause for both token errors.
dispatch_catch_all(cfg, path, h, t) ==
    IF Whitelisted(path)
    THEN GateResponse("ALLOWED_PATH", 0, "", 1, NoIdentity, "")
    ELSE IF HeaderFalsy(h) \/ ~HeaderStartsWithBearer(h)
    THEN GateResponse("TOKEN_MISSING", 401, MsgMissing, 0, NoIdentity, "")
    ELSE LET d == decode_token(cfg, HeaderToken(h), "access", t) IN
         CASE d.kind \in {"TokenExpiredError", "TokenInvalidError"} ->
                GateResponse("TOKEN_INVALID", 401, MsgInvalid, 0, NoIdentity, "")
           [] d.kind = "ok" ->
                GateResponse("TOKEN_VALID", 0, "", 1,
                             [set |-> TRUE, user_id |-> d.payload.sub,
                              user_extra |-> d.payload.extra], "")
           [] OTHER ->
                GateResponse("EXCEPTION", 500, "", 0, NoIdentity, d.kind)

\* Variant of dispatch: request.state.user_extra is not filled from the
\* payload.
dispatch_without_extra(cfg, path, h, t) ==
    IF Whitelisted(path)
    THEN GateResponse("ALLOWED_PATH", 0, "", 1, NoIdentity, "")
    ELSE IF HeaderFalsy(h) \/ ~HeaderStartsWithBearer(h)
    THEN GateResponse("TOKEN_MISSING", 401, MsgMissing, 0, NoIdentity, "")
    ELSE LET d == decode_token(cfg, HeaderToken(h), "access", t) IN
         CASE d.kind = "TokenExpiredError" ->
                GateResponse("TOKEN_EXPIRED", 401, MsgExpired, 0, NoIdentity, "")
           [] d.kind = "TokenInvalidError" ->
                GateResponse("TOKEN_INVALID", 401, MsgInvalid, 0, NoIdentity, "")
           [] d.kind = "ok" ->
                GateResponse("TOKEN_VALID", 0, "", 1,
                             [set |-> TRUE, user_id |-> d.payload.sub,
                              user_extra |-> Dict({})], "")
           [] OTHER ->
                GateResponse("EXCEPTION", 500, "", 0, NoIdentity, d.kind)

\* AuthMiddleware.dispatch at clock value t.  status 0: the response is the
\* one call_next returns.  outcome "EXCEPTION": an exception leaves dispatch.
dispatch(cfg, path, h, t) ==
    IF Whitelisted(path)
    THEN GateResponse("ALLOWED_PATH", 0, "", 1, NoIdentity, "")
    ELSE IF HeaderFalsy(h) \/ ~HeaderStartsWithBearer(h)
    THEN GateResponse("TOKEN_MISSING", 401, MsgMissing, 0, NoIdentity, "")
    ELSE LET d == decode_token(cfg, HeaderToken(h), "access", t) IN
         CASE d.kind = "TokenExpiredError" ->
                GateResponse("TOKEN_EXPIRED", 401, MsgExpired, 0, NoIdentity, "")
           [] d.kind = "TokenInvalidError" ->
                GateResponse("TOKEN_INVALID", 401, MsgInvalid, 0, NoIdentity, "")
           [] d.kind = "ok" ->
                GateResponse("TOKEN_VALID", 0, "", 1,
                             [set |-> TRUE, user_id |-> d.payload.sub,
                              user_extra |-> d.payload.extra], "")
           [] OTHER ->
                GateResponse("EXCEPTION", 500, "", 0, NoIdentity, d.kind)

(***************************************************************************)
(* make_jwt_depends (common/utils/jwt/JwtDepends.py).                      *)
(***************************************************************************)
\* _get_current_user on the credentials HTTPBearer took from the header,
\* at clock value t: the payload, HTTPException(401, detail), or the
\* exception decode_token let through.
_get_current_user(cfg, token, t) ==
    LET d == decode_token(cfg, token, "access", t) IN
    CASE d.kind = "TokenExpiredError" ->
           [outcome |-> "TOKEN_EXPIRED", status |-> 401, detail |-> MsgExpired,
            payload |-> NoPayload, raised |-> "HTTPException"]
      [] d.kind = "TokenInvalidError" ->
           [outcome |-> "TOKEN_INVALID", status |-> 401, detail |-> MsgInvalid,
            payload |-> NoPayload, raised |-> "HTTPException"]
      [] d.kind = "ok" ->
           [outcome |-> "TOKEN_VALID", status |-> 0, detail |-> "",
            payload |-> d.payload, raised |-> ""]
      [] OTHER ->
           [outcome |-> "EXCEPTION", status |-> 500, detail |-> "",
            payload |-> NoPayload, raised |-> d.kind]

(***************************************************************************)
(* require_role (account_service/middleware/RoleDepends.py).               *)
(***************************************************************************)
\* detail of the HTTPException (the source has it in Chinese;
\* transliterated here).
MsgForbidden == "quan xian bu zu"

\* Variant of require_role: the role is compared with the first of the
\* roles only.
require_role_first_only(roles, state) ==
    LET extra == IF state.set THEN OrEmptyDict(state.user_extra) ELSE Dict({})
        role == DictGet(extra, "role")
    IN IF Len(roles) > 0 /\ role = PyStr(roles[1])
       THEN [passed |-> TRUE, status |-> 0, detail |-> ""]
       ELSE [passed |-> FALSE, status |-> 403, detail |-> MsgForbidden]

\* The _check of require_role(*roles) on a request whose state is
\* `state`: passed, or HTTPException(403).  roles is the tuple *roles.
require_role(roles, state) ==
    LET extra == IF state.set THEN OrEmptyDict(state.user_extra) ELSE Dict({})
        role == DictGet(extra, "role")
    IN IF \E i \in 1..Len(roles) : role = PyStr(roles[i])
       THEN [passed |-> TRUE, status |-> 0, detail |-> ""]
       ELSE [passed |-> FALSE, status |-> 403, detail |-> MsgForbidden]

(***************************************************************************)
(* The account service application (account_service/main.py).            *)
(***************************************************************************)
\* The middleware main.py adds to the app, outermost first: it registers
\* the rate limiter, the exception handlers and the user router, and adds
\* no middleware.
AppMiddleware == << >>

\* Routes of the user router (account_service/router/UserRouter.py).
AppRoutes ==
    { ApiUser \o <<"r", "e", "g", "i", "s", "t", "e", "r", "_", "u", "s", "e", "r">>,
      PathList, PathLogin, PathLogin \o VerifyCode, PathRegister \o VerifyCode }

\* One request through the app: the middleware stack, then routing.
\* gate: what AuthMiddleware did, if it is in the stack.
app_request(cfg, path, h, t) ==
    LET installed == \E i \in 1..Len(AppMiddleware) : AppMiddleware[i] = "AuthMiddleware"
        g == IF installed THEN dispatch(cfg, path, h, t)
             ELSE GateResponse("NO_GATE", 0, "", 1, NoIdentity, "")
        routed == g.next_calls = 1 /\ path \in AppRoutes
    IN [gate |-> g, handler_ran |-> routed,
        status |-> IF g.next_calls = 0 THEN g.status
                   ELSE IF routed THEN 200 ELSE 404]

(***************************************************************************)
(* ConcurrencyLimiter (common/utils/limiter/ConcurrencyLimiter.py).        *)
(***************************************************************************)
\* ConcurrencyLimiter.__init__; timeout: whether self.timeout is truthy;
\* semaphore: the value of the asyncio.Semaphore.
ConcurrencyLimiter(max_concurrent, timeout) ==
    [max_concurrent |-> max_concurrent, timeout |-> timeout,
     semaphore |-> max_concurrent,
     waiting_count |-> 0, total_requests |-> 0, rejected_requests |-> 0]

\* Variant of SemaphoreLocked: the semaphore never blocks.
SemaphoreNeverLocked(l) == FALSE

\* asyncio.Semaphore.locked(): no slot left.
SemaphoreLocked(l) == l.semaphore = 0

(***************************************************************************)
(* SnowflakeIDGenerator (common/model/SnowFlake.py).  Timestamps are       *)
(* counted from self.epoch; last_timestamp = -1 is the value before the    *)
(* first ID.                                                               *)
(***************************************************************************)
\* x | y on non-negative ints
RECURSIVE BitOr(_, _)
BitOr(x, y) ==
    IF x = 0 THEN y
    ELSE IF y = 0 THEN x
    ELSE (IF x % 2 = 1 \/ y % 2 = 1 THEN 1 ELSE 0) + 2 * BitOr(x \div 2, y \div 2)

\* x << n and x & (-1 ^ (-1 << n)) on non-negative ints
ShiftLeft(x, n) == x * 2^n
LowBits(x, n) == x % 2^n

WorkerIdShift == SequenceBits
DatacenterIdShift == SequenceBits + WorkerIdBits
TimestampShift == SequenceBits + WorkerIdBits + DatacenterIdBits

\* SnowflakeIDGenerator.__init__
SnowflakeIDGenerator(worker_id, datacenter_id) ==
    [worker_id |-> worker_id, datacenter_id |-> datacenter_id,
     sequence |-> 0, last_timestamp |-> -1]

\* The return expression of generate.
SnowflakeID(g, timestamp, sequence) ==
    BitOr(BitOr(BitOr(ShiftLeft(timestamp, TimestampShift),
                      ShiftLeft(g.datacenter_id, DatacenterIdShift)),
                ShiftLeft(g.worker_id, WorkerIdShift)),
          sequence)

\* Variant of generate: a wrapped sequence does not wait for the next
\* millisecond.
generate_without_wait(g, ts, next) ==
    IF ts < g.last_timestamp THEN [kind |-> "raise", id |-> -1, gen |-> g]
    ELSE LET seq == IF ts = g.last_timestamp
                    THEN LowBits(g.sequence + 1, SequenceBits) ELSE 0
         IN [kind |-> "id", id |-> SnowflakeID(g, ts, seq),
             gen |-> [g EXCEPT !.sequence = seq, !.last_timestamp = ts]]

\* generate(), under its lock, with ts the clock reading at its start and
\* next the first later reading _wait_for_next_millis gets that is past
\* last_timestamp.  kind "raise": the exception for a clock set back.
generate(g, ts, next) ==
    IF ts < g.last_timestamp THEN [kind |-> "raise", id |-> -1, gen |-> g]
    ELSE LET seq == IF ts = g.last_timestamp
                    THEN LowBits(g.sequence + 1, SequenceBits) ELSE 0
             timestamp == IF ts = g.last_timestamp /\ seq = 0 THEN next ELSE ts
         IN [kind |-> "id", id |-> SnowflakeID(g, timestamp, seq),
             gen |-> [g EXCEPT !.sequence = seq, !.last_timestamp = timestamp]]

(***************************************************************************)
(* Inputs.                                                                 *)
(***************************************************************************)
\* JwtConfig values: default algorithm, lifetimes of one minute / one day
\* and the degenerate lifetimes of zero the dataclass also accepts.
Configs ==
    { JwtConfig("server-secret", "HS256", 1, 1),
      JwtConfig("server-secret", "HS256", 0, 1),
      JwtConfig("server-secret", "HS256", 1, 0) }

\* (user_id, extra) arguments of create_token_pair.
RoleAdmin == Dict({<<"role", "admin">>})
RoleLevel1 == Dict({<<"role", "level_1">>})
LoginInputs ==
    { [user_id |-> PyStr("42"), extra |-> RoleAdmin],
      [user_id |-> PyStr("42"), extra |-> PyNone],
      [user_id |-> PyInt(7), extra |-> RoleLevel1] }

\* Clock advances: one second, and the jumps that land one second before
\* the end of a one minute / one day lifetime.
TickSteps == {1, SecondsPerMinute - 1, SecondsPerDay - 1}

OtherType(tt) == IF tt = "access" THEN "refresh" ELSE "access"

\* Tokens made from an issued token tk without a valid signature over
\* their own content.
Forgeries(tk, cfg) ==
    { [tk EXCEPT !.sig = NoSignature],
      [tk EXCEPT !.claims.exp = PyInt(tk.claims.exp.n + SecondsPerDay)],
      [tk EXCEPT !.claims.token_type = OtherType(tk.claims.token_type)],
      jwt_encode(tk.claims, "attacker-secret", cfg.algorithm),
      jwt_encode(tk.claims, cfg.secret_key, "HS512"),
      [tk EXCEPT !.sig.alg = "HS512"],
      [tk EXCEPT !.alg = "none", !.sig = NoSignature] }

\* Tokens signed with the server's key and algorithm whose claims are not
\* the ones JwtHandler writes (another issuer holding the key).
Reissued(tk, cfg) ==
    { jwt_encode(c, cfg.secret_key, cfg.algorithm) :
        c \in { [tk.claims EXCEPT !.sub = Absent],
                [tk.claims EXCEPT !.sub = PyInt(42)],
                [tk.claims EXCEPT !.exp = Absent],
                [tk.claims EXCEPT !.exp = PyStr("soon")],
                [tk.claims EXCEPT !.exp = PyNull],
                [tk.claims EXCEPT !.iat = Absent],
                [tk.claims EXCEPT !.iat = PyStr("then")],
                [tk.claims EXCEPT !.iat = PyNull],
                [tk.claims EXCEPT !.token_type = ""] } }

Issued(p) == IF p = NoPair THEN {} ELSE {p.access_token, p.refresh_token}

\* Token strings presented to decode_token.
Presentable(p, cfg) ==
    IF p = NoPair THEN {Unparsable}
    ELSE {Unparsable, p.access_token, p.refresh_token}
           \cup Forgeries(p.access_token, cfg) \cup Forgeries(p.refresh_token, cfg)
           \cup Reissued(p.access_token, cfg)

\* Token strings presented to refresh_token.
Refreshable(p, cfg) ==
    IF p = NoPair THEN {Unparsable}
    ELSE {Unparsable, p.access_token, p.refresh_token}
           \cup Forgeries(p.refresh_token, cfg)

\* Token strings sent as the bearer credential.
GateTokens(p, cfg) ==
    IF p = NoPair THEN {Unparsable}
    ELSE {Unparsable, p.access_token, p.refresh_token}
           \cup Forgeries(p.access_token, cfg) \cup Reissued(p.access_token, cfg)

Headers(p, cfg) ==
    { NoHeader, BareHeader(<< >>), BareHeader(Bearer),
      Header(<<"b", "e", "a", "r", "e", "r", " ">>, p.access_token),
      Header(Bearer \o <<" ">>, p.access_token),
      Header(<< >>, p.access_token) }
      \cup { Header(Bearer, tk) : tk \in GateTokens(p, cfg) }

GateRequests(p, cfg) ==
    ({PathList} \X Headers(p, cfg))
      \cup ({ PathHealth, PathHealth \o <<"z">>, <<"/", "H", "e", "a", "l", "t", "h">>,
              PathLogin \o VerifyCode, <<"/">> }
            \X {NoHeader, Header(Bearer, p.access_token)})

\* The *roles tuples routes are guarded with.
RoleTuples == { <<"admin">>, <<"admin", "level_1">>, << >> }

\* Requests to a route guarded with require_role.
GuardedRequests(p) ==
    {PathList, PathHealth} \X {NoHeader, Header(Bearer, p.access_token)}

AppRequests(p) ==
    {PathList, PathLogin, PathHealth} \X {NoHeader, Header(Bearer, p.access_token)}

(***************************************************************************)
(* State.                                                                  *)
(***************************************************************************)
VARIABLES
    config,   \* the JwtConfig of the module level JwtHandler, set at start
    now,      \* the clock, seconds (datetime.now(timezone.utc))
    ticks,    \* clock advances so far
    who,      \* arguments of the create_token_pair call that logged in
    pair,     \* the token pair the client holds
    reuse,    \* successful refresh_token calls made so far with pair.refresh_token
    call,     \* the call just made and its result, until the caller takes it
    reqs,     \* the requests in the pipeline gate -> guard -> handler
    rstate,   \* the request.state objects
    limiter,  \* one ConcurrencyLimiter: its fields and its semaphore
    callers,  \* where each caller of the wrapped function is
    sf,       \* one SnowflakeIDGenerator: sequence and last_timestamp
    sf_clock, \* the millisecond clock _time_gen reads, relative to epoch
    sf_call,  \* the generate() call just made and what it returned
    retry,    \* one call of a function decorated with async_retry
    redis,    \* the verification code stored under the identifier's key
    auth      \* the LoginStrategy.authenticate calls in progress

jwt_vars == <<config, now, ticks, who, pair, reuse, call>>
gate_vars == <<reqs, rstate>>
lim_vars == <<limiter, callers>>
sf_vars == <<sf, sf_clock, sf_call>>
code_vars == <<redis, auth>>
vars == <<jwt_vars, gate_vars, lim_vars, sf_vars, retry, code_vars>>
\* everything but the JWT handler's variables
aux_vars == <<gate_vars, lim_vars, sf_vars, retry, code_vars>>

Idle == [op |-> "idle"]
NoWho == [user_id |-> Absent, extra |-> PyNone]

\* The concurrent requests, callers and sessions of the model.
Requests == {"r1", "r2"}
Callers == {"c1", "c2", "c3"}
Sessions == {"s1", "s2"}

\* Variant of StateOf: one state object for all requests (a module level
\* attribute).
StateOfShared(r) == "r1"

\* request.state: each Request object carries its own state object.
StateOf(r) == r

\* A request in the pipeline.  pc: none, arrived, then rejected (401) or
\* gated, then forbidden (403) or guarded, then handled.  seen: the
\* request.state the guard read; read: the one the handler read; among:
\* the other requests that were between gate and guard when the guard ran.
NoRequest ==
    [pc |-> "none", path |-> << >>, header |-> NoHeader, roles |-> << >>,
     at |-> 0, gate |-> "", seen |-> NoIdentity, read |-> NoIdentity,
     among |-> {}]
\* One call of the wrapper of async_retry.  attempt: the loop variable;
\* log: the exceptions of the failed attempts so far, the last of them
\* being last_exception; tries: calls of the decorated function so far;
\* sleeps: asyncio.sleep(delay) calls so far; out: how the wrapper ended.
NoRetry ==
    [pc |-> "idle", max_retries |-> 0, attempt |-> 0, log |-> << >>,
     tries |-> 0, sleeps |-> 0, out |-> [kind |-> "", exc |-> ""]]

\* One LoginStrategy.authenticate call with a verification code.  code:
\* the code submitted; stored: what async_get returned; ok: it returned
\* (True, None, user).
NoAuth == [pc |-> "idle", code |-> "", stored |-> "", ok |-> FALSE]

\* The JWT handler before the first call.
JwtInit ==
    /\ now = 0
    /\ ticks = 0
    /\ who = NoWho
    /\ pair = NoPair
    /\ reuse = 0
    /\ call = Idle

GateInit ==
    /\ reqs = [r \in Requests |-> NoRequest]
    /\ rstate = [r \in Requests |-> NoIdentity]

LimiterIdle ==
    /\ callers = [c \in Callers |-> "idle"]

\* No generate() call yet.  prev: the ID returned by the latest call that
\* returned one; at, last: the clock reading and last_timestamp the call
\* started from.
NoGenerate ==
    [op |-> "idle", kind |-> "", id |-> -1, prev |-> -1, at |-> 0, last |-> -1,
     seq |-> 0]

SnowflakeInit ==
    /\ sf = SnowflakeIDGenerator(1, 1)
    /\ sf_clock = 0
    /\ sf_call = NoGenerate

RetryInit == retry = NoRetry

CodeInit ==
    /\ redis = ""
    /\ auth = [a \in Sessions |-> NoAuth]

Init ==
    /\ config \in Configs
    /\ JwtInit
    /\ GateInit
    /\ limiter = ConcurrencyLimiter(1, FALSE)
    /\ LimiterIdle
    /\ SnowflakeInit
    /\ RetryInit
    /\ CodeInit

\* The clock advances by d seconds.
Tick(d) ==
    /\ call = Idle
    /\ ticks < MaxTicks
    /\ now' = now + d
    /\ ticks' = ticks + 1
    /\ UNCHANGED <<config, who, pair, reuse, call, aux_vars>>

\* Login: JwtHandler.create_token_pair(user_id, extra); the clock advances
\* by gap seconds between its two reads.
Login(in, gap) ==
    /\ call = Idle
    /\ ticks + gap <= MaxTicks
    /\ LET res == create_token_pair(config, in.user_id, in.extra, now, now + gap) IN
        /\ pair' = res
        /\ call' = [op |-> "create_token_pair", user_id |-> in.user_id,
                    extra |-> in.extra, t1 |-> now, t2 |-> now + gap, res |-> res]
    /\ who' = in
    /\ reuse' = 0
    /\ now' = now + gap
    /\ ticks' = ticks + gap
    /\ UNCHANGED <<config, aux_vars>>

\* JwtHandler.decode_token(token, expected_type)
Decode(token, expected_type) ==
    /\ call = Idle
    /\ call' = [op |-> "decode_token", token |-> token,
                expected_type |-> expected_type, at |-> now,
                res |-> decode_token(config, token, expected_type, now)]
    /\ UNCHANGED <<config, now, ticks, who, pair, reuse, aux_vars>>

\* JwtHandler.refresh_token(token); the clock advances by g1 seconds
\* between decoding and the first token, by g2 between the two tokens.
\* A client that refreshed with its own token either keeps the new pair
\* (keep) or goes on with the old one, whose refresh token it then has
\* used once more.
Refresh(token, g1, g2, keep) ==
    /\ call = Idle
    /\ ticks + g1 + g2 <= MaxTicks
    /\ LET res == refresh_token(config, token, now, now + g1, now + g1 + g2)
           adv == IF res.kind = "ok" THEN g1 + g2 ELSE 0
           own == res.kind = "ok" /\ token = pair.refresh_token
       IN
        /\ res.kind # "ok" => g1 + g2 = 0
        /\ ~own => keep
        /\ ~keep => reuse < MaxReuse
        /\ call' = [op |-> "refresh_token", token |-> token, at |-> now,
                    used |-> IF token = pair.refresh_token THEN reuse ELSE 0,
                    res |-> res]
        /\ pair' = IF own /\ keep THEN res.pair ELSE pair
        /\ reuse' = IF own THEN (IF keep THEN 0 ELSE reuse + 1) ELSE reuse
        /\ now' = now + adv
        /\ ticks' = ticks + adv
    /\ UNCHANGED <<config, who, aux_vars>>

\* One request through AuthMiddleware.dispatch.
Dispatch(path, h) ==
    /\ call = Idle
    /\ call' = [op |-> "dispatch", path |-> path, header |-> h, at |-> now,
                res |-> dispatch(config, path, h, now)]
    /\ UNCHANGED <<config, now, ticks, who, pair, reuse, aux_vars>>

\* One request to the application main.py assembles.
AppRequest(path, h) ==
    /\ call = Idle
    /\ call' = [op |-> "app_request", path |-> path, header |-> h, at |-> now,
                res |-> app_request(config, path, h, now)]
    /\ UNCHANGED <<config, now, ticks, who, pair, reuse, aux_vars>>

\* One request to a route guarded with require_role(*roles), behind the
\* gate: the check runs when dispatch called the next handler, on the
\* request state dispatch left.
RequireRole(roles, path, h) ==
    /\ call = Idle
    /\ LET g == dispatch(config, path, h, now) IN
        /\ g.next_calls = 1
        /\ call' = [op |-> "require_role", roles |-> roles, path |-> path,
                    header |-> h, at |-> now, state |-> g.identity,
                    res |-> require_role(roles, g.identity)]
    /\ UNCHANGED <<config, now, ticks, who, pair, reuse, aux_vars>>

\* The same bearer token, at the same clock value, through both entry
\* points: AuthMiddleware.dispatch on a protected path, and the dependency
\* make_jwt_depends returns.
EntryPoints(token) ==
    /\ call = Idle
    /\ call' = [op |-> "entry_points", token |-> token, at |-> now,
                gate |-> dispatch(config, PathList, Header(Bearer, token), now),
                dep |-> _get_current_user(config, token, now)]
    /\ UNCHANGED <<config, now, ticks, who, pair, reuse, aux_vars>>

\* The caller takes the result.
Return ==
    /\ call # Idle
    /\ call' = Idle
    /\ UNCHANGED <<config, now, ticks, who, pair, reuse, aux_vars>>

\* Request r arrives for a route guarded with require_role(*roles); its
\* state object is empty.
Arrive(r, path, h, roles) ==
    /\ call = Idle
    /\ reqs[r].pc = "none"
    /\ reqs' = [reqs EXCEPT ![r] = [NoRequest EXCEPT !.pc = "arrived", !.path = path,
                                                     !.header = h, !.roles = roles]]
    /\ rstate' = [rstate EXCEPT ![StateOf(r)] = NoIdentity]
    /\ UNCHANGED <<jwt_vars, lim_vars, sf_vars, retry, code_vars>>

\* AuthMiddleware.dispatch for request r, up to its return or its
\* `await call_next(request)`.
GateStep(r) ==
    /\ reqs[r].pc = "arrived"
    /\ LET g == dispatch(config, reqs[r].path, reqs[r].header, now) IN
        /\ rstate' = IF g.identity.set
                      THEN [rstate EXCEPT ![StateOf(r)] = g.identity]
                      ELSE rstate
        /\ reqs' = [reqs EXCEPT ![r].pc = IF g.next_calls = 1 THEN "gated" ELSE "rejected",
                                 ![r].gate = g.outcome,
                                 ![r].at = now]
    /\ UNCHANGED <<jwt_vars, lim_vars, sf_vars, retry, code_vars>>

\* The check of require_role for request r.
GuardStep(r) ==
    /\ reqs[r].pc = "gated"
    /\ LET st == rstate[StateOf(r)] IN
        reqs' = [reqs EXCEPT ![r].pc = IF require_role(reqs[r].roles, st).passed
                                        THEN "guarded" ELSE "forbidden",
                             ![r].seen = st,
                             ![r].among = {q \in Requests \ {r} : reqs[q].pc = "gated"}]
    /\ UNCHANGED <<jwt_vars, rstate, lim_vars, sf_vars, retry, code_vars>>

\* The route handler of request r reads request.state.
HandlerStep(r) ==
    /\ reqs[r].pc = "guarded"
    /\ reqs' = [reqs EXCEPT ![r].pc = "handled", ![r].read = rstate[StateOf(r)]]
    /\ UNCHANGED <<jwt_vars, rstate, lim_vars, sf_vars, retry, code_vars>>

\* Caller c calls the wrapped function: acquire() counts it in and waits
\* for the semaphore.  Without timeout and with a free slot acquire()
\* returns without suspending and the body starts.
LimEnter(c) ==
    /\ callers[c] = "idle"
    /\ LET l == [limiter EXCEPT !.total_requests = @ + 1, !.waiting_count = @ + 1] IN
        \/ /\ ~limiter.timeout
           /\ ~SemaphoreLocked(limiter)
           /\ limiter' = [l EXCEPT !.semaphore = @ - 1, !.waiting_count = @ - 1]
           /\ callers' = [callers EXCEPT ![c] = "running"]
        \/ /\ limiter.timeout \/ SemaphoreLocked(limiter)
              \/ \E w \in Callers : callers[w] = "waiting"
           /\ limiter' = l
           /\ callers' = [callers EXCEPT ![c] = "waiting"]
    /\ UNCHANGED <<jwt_vars, gate_vars, sf_vars, retry, code_vars>>

\* The semaphore is acquired by waiting caller c: acquire() returns True
\* and the body starts.
LimAcquire(c) ==
    /\ callers[c] = "waiting"
    /\ ~SemaphoreLocked(limiter)
    /\ limiter' = [limiter EXCEPT !.semaphore = @ - 1, !.waiting_count = @ - 1]
    /\ callers' = [callers EXCEPT ![c] = "running"]
    /\ UNCHANGED <<jwt_vars, gate_vars, sf_vars, retry, code_vars>>

\* wait_for times out for waiting caller c: acquire() returns False and
\* the wrapper raises HTTPException(503).
LimTimeout(c) ==
    /\ callers[c] = "waiting"
    /\ limiter.timeout
    /\ limiter' = [limiter EXCEPT !.waiting_count = @ - 1, !.rejected_requests = @ + 1]
    /\ callers' = [callers EXCEPT ![c] = "rejected"]
    /\ UNCHANGED <<jwt_vars, gate_vars, sf_vars, retry, code_vars>>

\* Waiting caller c is cancelled (the client went away): CancelledError
\* is no TimeoutError and leaves acquire() through neither return.
LimCancelWaiting(c) ==
    /\ callers[c] = "waiting"
    /\ callers' = [callers EXCEPT ![c] = "cancelled"]
    /\ UNCHANGED <<limiter, jwt_vars, gate_vars, sf_vars, retry, code_vars>>

\* The body of caller c ends (returns, raises or is cancelled): the
\* finally clause releases the semaphore.
LimFinish(c, how) ==
    /\ callers[c] = "running"
    /\ limiter' = [limiter EXCEPT !.semaphore = @ + 1]
    /\ callers' = [callers EXCEPT ![c] = how]
    /\ UNCHANGED <<jwt_vars, gate_vars, sf_vars, retry, code_vars>>

\* The millisecond clock advances.
SfTick ==
    /\ sf_clock < MaxMillis
    /\ sf_clock' = sf_clock + 1
    /\ UNCHANGED <<sf, sf_call, jwt_vars, gate_vars, lim_vars, retry, code_vars>>

\* The system clock is set back.
SfClockBack ==
    /\ sf_clock > 0
    /\ sf_clock' = sf_clock - 1
    /\ UNCHANGED <<sf, sf_call, jwt_vars, gate_vars, lim_vars, retry, code_vars>>

\* One generate() call, from whichever thread takes the lock next.  When
\* the sequence wraps the call spins until the clock has passed
\* last_timestamp.
Generate(next) ==
    /\ LET res == generate(sf, sf_clock, next)
           waited == /\ sf_clock = sf.last_timestamp
                     /\ LowBits(sf.sequence + 1, SequenceBits) = 0
       IN
        /\ waited => next > sf.last_timestamp
        /\ ~waited => next = sf_clock
        /\ sf' = res.gen
        /\ sf_clock' = IF waited THEN next ELSE sf_clock
        /\ sf_call' = [op |-> "generate", kind |-> res.kind, id |-> res.id,
                       prev |-> IF sf_call.kind = "id" THEN sf_call.id ELSE sf_call.prev,
                       at |-> sf_clock, last |-> sf.last_timestamp,
                       seq |-> sf.sequence]
    /\ UNCHANGED <<jwt_vars, gate_vars, lim_vars, retry, code_vars>>

\* The function decorated with async_retry(max_retries=m) is called.
RetryCall(m) ==
    /\ retry.pc = "idle"
    /\ retry' = [NoRetry EXCEPT !.pc = "loop", !.max_retries = m]
    /\ UNCHANGED <<jwt_vars, gate_vars, lim_vars, sf_vars, code_vars>>

\* One pass of the loop body: the decorated function returns, or raises
\* the Exception exc, which is kept as last_exception.
RetryAttempt(exc) ==
    /\ retry.pc = "loop"
    /\ retry.attempt < retry.max_retries
    /\ retry' =
         IF exc = ""
         THEN [retry EXCEPT !.pc = "done", !.tries = @ + 1,
                            !.out = [kind |-> "return", exc |-> ""]]
         ELSE [retry EXCEPT !.log = Append(@, exc), !.tries = @ + 1,
                            !.pc = IF retry.attempt < retry.max_retries - 1
                                   THEN "sleep" ELSE "loop",
                            !.attempt = IF retry.attempt < retry.max_retries - 1
                                        THEN @ ELSE @ + 1]
    /\ UNCHANGED <<jwt_vars, gate_vars, lim_vars, sf_vars, code_vars>>

\* await asyncio.sleep(delay), then the next pass.
RetrySleep ==
    /\ retry.pc = "sleep"
    /\ retry' = [retry EXCEPT !.pc = "loop", !.sleeps = @ + 1, !.attempt = @ + 1]
    /\ UNCHANGED <<jwt_vars, gate_vars, lim_vars, sf_vars, code_vars>>

\* The loop is exhausted: `raise last_exception`; raising None is a
\* TypeError.
RetryRaise ==
    /\ retry.pc = "loop"
    /\ retry.attempt >= retry.max_retries
    /\ retry' = [retry EXCEPT !.pc = "done",
                              !.out = IF retry.log = << >>
                                      THEN [kind |-> "TypeError", exc |-> ""]
                                      ELSE [kind |-> "raise",
                                            exc |-> retry.log[Len(retry.log)]]]
    /\ UNCHANGED <<jwt_vars, gate_vars, lim_vars, sf_vars, code_vars>>

\* The caller has the outcome; the function may be called again.
RetryDone ==
    /\ retry.pc = "done"
    /\ retry' = NoRetry
    /\ UNCHANGED <<jwt_vars, gate_vars, lim_vars, sf_vars, code_vars>>

\* Session a calls authenticate with a verification code; format, user
\* and status checks pass.  An empty code is refused at once.
AuthStart(a, code) ==
    /\ auth[a].pc = "idle"
    /\ auth' = [auth EXCEPT ![a] = [NoAuth EXCEPT !.code = code,
                                                  !.pc = IF code = "" THEN "done" ELSE "get"]]
    /\ UNCHANGED <<redis, jwt_vars, gate_vars, lim_vars, sf_vars, retry>>

\* stored_code = await redis_client.async_get(redis_key), and the two
\* comparisons.
AuthGet(a) ==
    /\ auth[a].pc = "get"
    /\ auth' = [auth EXCEPT ![a].stored = redis,
                            ![a].pc = IF redis = "" \/ redis # auth[a].code
                                      THEN "done" ELSE "delete"]
    /\ UNCHANGED <<redis, jwt_vars, gate_vars, lim_vars, sf_vars, retry>>

\* await redis_client.async_delete(redis_key); return True, None, user
AuthDelete(a) ==
    /\ auth[a].pc = "delete"
    /\ redis' = ""
    /\ auth' = [auth EXCEPT ![a].pc = "done", ![a].ok = TRUE]
    /\ UNCHANGED <<jwt_vars, gate_vars, lim_vars, sf_vars, retry>>

\* The stored code expires.
CodeExpires ==
    /\ redis # ""
    /\ redis' = ""
    /\ UNCHANGED <<auth, jwt_vars, gate_vars, lim_vars, sf_vars, retry>>

\* The JwtHandler called directly (login and refresh endpoints, tests).
Next ==
    \/ \E d \in TickSteps : Tick(d)
    \/ \E in \in LoginInputs, gap \in {0, 1} : Login(in, gap)
    \/ \E tk \in Presentable(pair, config), et \in {"access", "refresh"} : Decode(tk, et)
    \/ \E tk \in Refreshable(pair, config), g1 \in {0, 1}, g2 \in {0, 1} : Refresh(tk, g1, g2, TRUE)
    \/ Return

Spec == Init /\ [][Next]_vars

\* Requests through the gate and through the assembled application, by a
\* client that logged in; decode_token on the tokens it holds.
NextGate ==
    \/ \E d \in TickSteps : Tick(d)
    \/ \E in \in LoginInputs, gap \in {0, 1} : Login(in, gap)
    \/ \E tk \in Issued(pair), et \in {"access", "refresh"} : Decode(tk, et)
    \/ \E rq \in GateRequests(pair, config) : Dispatch(rq[1], rq[2])
    \/ \E rq \in AppRequests(pair) : AppRequest(rq[1], rq[2])
    \/ \E roles \in RoleTuples, rq \in GuardedRequests(pair) : RequireRole(roles, rq[1], rq[2])
    \/ \E tk \in GateTokens(pair, config) : EntryPoints(tk)
    \/ Return

SpecGate == Init /\ [][NextGate]_vars

\* One client session: login, verification of the tokens it holds, and
\* refreshes with its refresh token, after which it keeps the new pair or
\* goes on using the old one.
NextSession ==
    \/ \E d \in TickSteps : Tick(d)
    \/ \E in \in LoginInputs, gap \in {0, 1} : Login(in, gap)
    \/ \E tk \in Issued(pair), et \in {"access", "refresh"} : Decode(tk, et)
    \/ \E tk \in Issued(pair), g1 \in {0, 1}, keep \in BOOLEAN : Refresh(tk, g1, 0, keep)
    \/ Return

SpecSession == Init /\ [][NextSession]_vars

\* Requests of clients that logged in, handled concurrently: the steps of
\* different requests interleave at the awaits of the pipeline.
RequestInputs(p) ==
    {PathList} \X {NoHeader, Header(Bearer, p.access_token)} \X {<<"admin">>}

NextRequests ==
    \/ Tick(SecondsPerMinute + 1)
    \/ \E in \in LoginInputs : Login(in, 0)
    \/ Return
    \/ \E r \in Requests, rq \in RequestInputs(pair) : Arrive(r, rq[1], rq[2], rq[3])
    \/ \E r \in Requests : GateStep(r)
    \/ \E r \in Requests : GuardStep(r)
    \/ \E r \in Requests : HandlerStep(r)

InitRequests ==
    /\ Init
    /\ config = JwtConfig("server-secret", "HS256", 1, 1)

SpecRequests == InitRequests /\ [][NextRequests]_vars

\* The JWT handler left alone, under its default configuration.
JwtUnused ==
    /\ config = JwtConfig("server-secret", "HS256", 1, 1)
    /\ JwtInit
    /\ GateInit

\* Callers of one function wrapped by a ConcurrencyLimiter.
InitLimiter ==
    /\ JwtUnused
    /\ limiter \in { ConcurrencyLimiter(n, to) : n \in 1..MaxConcurrent, to \in BOOLEAN }
    /\ LimiterIdle
    /\ SnowflakeInit
    /\ RetryInit
    /\ CodeInit

NextLimiter ==
    \/ \E c \in Callers : LimEnter(c)
    \/ \E c \in Callers : LimAcquire(c)
    \/ \E c \in Callers : LimTimeout(c)
    \/ \E c \in Callers : LimCancelWaiting(c)
    \/ \E c \in Callers, how \in {"done", "cancelled"} : LimFinish(c, how)

SpecLimiter == InitLimiter /\ [][NextLimiter]_vars

\* Threads calling generate() on one generator, and the system clock.
InitSnowflake ==
    /\ JwtUnused
    /\ limiter = ConcurrencyLimiter(1, FALSE)
    /\ LimiterIdle
    /\ sf \in { SnowflakeIDGenerator(w, 1) : w \in {0, 1} }
    /\ sf_clock = 0
    /\ sf_call = NoGenerate
    /\ RetryInit
    /\ CodeInit

NextSnowflake ==
    \/ SfTick
    \/ SfClockBack
    \/ \E next \in 0..MaxMillis : Generate(next)

SpecSnowflake == InitSnowflake /\ [][NextSnowflake]_vars

\* Calls of one function decorated with async_retry.
Exceptions == {"ConnectionError", "TimeoutError", "ValueError"}

InitRetry ==
    /\ JwtUnused
    /\ limiter = ConcurrencyLimiter(1, FALSE)
    /\ LimiterIdle
    /\ SnowflakeInit
    /\ RetryInit
    /\ CodeInit

NextRetry ==
    \/ \E m \in 0..MaxRetries : RetryCall(m)
    \/ \E exc \in Exceptions \cup {""} : RetryAttempt(exc)
    \/ RetrySleep
    \/ RetryRaise
    \/ RetryDone

SpecRetry == InitRetry /\ [][NextRetry]_vars

\* Concurrent logins with the verification code stored for one identifier.
Codes == {"111111", "222222"}

InitCode ==
    /\ JwtUnused
    /\ limiter = ConcurrencyLimiter(1, FALSE)
    /\ LimiterIdle
    /\ SnowflakeInit
    /\ RetryInit
    /\ redis \in Codes
    /\ auth = [a \in Sessions |-> NoAuth]

NextCode ==
    \/ \E a \in Sessions, c \in Codes \cup {""} : AuthStart(a, c)
    \/ \E a \in Sessions : AuthGet(a)
    \/ \E a \in Sessions : AuthDelete(a)
    \/ CodeExpires

SpecCode == InitCode /\ [][NextCode]_vars

(***************************************************************************)
(* Properties.                                                             *)
(***************************************************************************)
\* The signature segment of tk is the MAC, under the configured key and
\* algorithm, of tk's own signing input (its header and claims).
Genuine(tk) ==
    /\ tk.wf
    /\ tk.sig = Sign(config.secret_key, config.algorithm, tk.alg, tk.claims)

\* tk carries claims of the kind JwtHandler writes, with a positive lifetime.
HandlerClaims(tk) ==
    /\ PayloadValid(tk.claims)
    /\ tk.claims.token_type \in {"access", "refresh"}
    /\ tk.claims.exp.n > tk.claims.iat.n

\* What decoding tk with its own type yields at the moment it was issued.
Decoded(tk) ==
    decode_token(config, tk, tk.claims.token_type, tk.claims.iat.n)

Lifetime(tt) ==
    IF tt = "access" THEN AccessExpireSeconds(config) ELSE RefreshExpireSeconds(config)

\* Both configured lifetimes are positive.
PositiveLifetimes ==
    /\ config.access_token_expire_minutes > 0
    /\ config.refresh_token_expire_days > 0

\* C1 (as claimed, under positive configured lifetimes): a token issued by
\* the handler and verified with its own type is refused with TokenExpiredError at every
\* clock value now >= exp, and accepted when exp = now + 1.
C1_ExpiryBoundary ==
    (/\ call.op = "decode_token"
     /\ PositiveLifetimes
     /\ call.token \in Issued(pair)
     /\ HandlerClaims(call.token)
     /\ call.token.claims.token_type = call.expected_type)
    => /\ call.at >= call.token.claims.exp.n => call.res.kind = "TokenExpiredError"
       /\ call.token.claims.exp.n = call.at + 1 => call.res.kind = "ok"

\* C2: decode_token returns a payload for no token whose signature is not
\* the MAC of that token's own content under the configured key and
\* algorithm; every such token is refused with TokenInvalidError.
C2_ForgeryRejected ==
    (call.op = "decode_token" /\ ~Genuine(call.token))
    => call.res.kind = "TokenInvalidError"

\* C2 witness: a token signed with the server's key under another algorithm
\* was presented and refused.
C2_Witness ==
    /\ call.op = "decode_token"
    /\ call.token.wf
    /\ call.token.alg = "HS512"
    /\ call.token.sig = Sign(config.secret_key, "HS512", "HS512", call.token.claims)
    /\ call.res.kind = "TokenInvalidError"

C4_CheckOrder ==
    (call.op = "decode_token" /\ PositiveLifetimes)
    => LET tk == call.token IN
       /\ ~Genuine(tk) => call.res.kind = "TokenInvalidError"
       /\ (Genuine(tk) /\ HandlerClaims(tk) /\ call.at >= tk.claims.exp.n)
            => call.res.kind = "TokenExpiredError"
       /\ (Genuine(tk) /\ HandlerClaims(tk) /\ call.res.kind = "TokenInvalidError")
            => (tk.claims.token_type # call.expected_type /\ call.at < tk.claims.exp.n)

\* C5 (as claimed, under positive configured lifetimes):
\* in the application main.py assembles, a route handler
\* for a path outside the allow-list runs only after the gate verified an
\* access token for that request.
C5_GateBeforeHandler ==
    (/\ call.op = "app_request"
     /\ PositiveLifetimes
     /\ call.res.handler_ran
     /\ ~Whitelisted(call.path))
    => call.res.gate.outcome = "TOKEN_VALID"

\* C6 (as claimed, under positive configured lifetimes):
\* dispatch ends every request in one of the five
\* outcomes; the next handler is called once in ALLOWED_PATH and
\* TOKEN_VALID and not at all in the three refusals, each answered 401.
C6_GateStateMachine ==
    (call.op = "dispatch" /\ PositiveLifetimes)
    => LET r == call.res IN
       /\ r.outcome \in {"ALLOWED_PATH", "TOKEN_VALID", "TOKEN_MISSING",
                         "TOKEN_EXPIRED", "TOKEN_INVALID"}
       /\ r.outcome \in {"ALLOWED_PATH", "TOKEN_VALID"} => r.next_calls = 1
       /\ r.outcome \in {"TOKEN_MISSING", "TOKEN_EXPIRED", "TOKEN_INVALID"}
            => (r.next_calls = 0 /\ r.status = 401)

\* C7 (as claimed, under positive configured lifetimes):
\* decode_token returns a payload or raises
\* TokenExpiredError or TokenInvalidError, for every token string.
C7_OnlyTypedErrors ==
    (call.op = "decode_token" /\ PositiveLifetimes)
    => call.res.kind \in {"ok", "TokenExpiredError", "TokenInvalidError"}

C9_StrictlyNewer ==
    (call.op = "refresh_token" /\ call.res.kind = "ok" /\ PositiveLifetimes)
    => call.res.pair.access_token.claims.iat.n > call.token.claims.iat.n

\* C9 (amended): the iat of the new access token is the clock second at
\* which the refresh ran, which is never earlier than the iat of the
\* refresh token presented.
C9_IssuedAtRefreshTime ==
    (call.op = "refresh_token" /\ call.res.kind = "ok")
    => LET new == call.res.pair.access_token.claims.iat.n IN
       /\ new >= call.at
       /\ new <= now
       /\ new >= call.token.claims.iat.n

\* C9 witness: a refresh in the clock second in which the presented token
\* was issued.
C9_Witness ==
    /\ call.op = "refresh_token"
    /\ call.res.kind = "ok"
    /\ call.res.pair.access_token.claims.iat.n = call.token.claims.iat.n

\* C10 (as claimed): every issued token has exp > iat.
C10_ExpAfterIat ==
    \A tk \in Issued(pair) : tk.claims.exp.n > tk.claims.iat.n

\* The pair the call just made returned, if it returned one.
NewPairs ==
    IF call.op = "create_token_pair" THEN {call.res}
    ELSE IF call.op = "refresh_token" /\ call.res.kind = "ok" THEN {call.res.pair}
    ELSE {}

\* C11 (as claimed, under positive configured lifetimes): the two tokens of
\* every pair create_token_pair returns carry the same iat, and their exp
\* differ by exactly the difference of the two configured lifetimes.
C11_SingleInstant ==
    PositiveLifetimes
    => \A p \in NewPairs :
         /\ p.access_token.claims.iat = p.refresh_token.claims.iat
         /\ p.refresh_token.claims.exp.n - p.access_token.claims.exp.n
              = RefreshExpireSeconds(config) - AccessExpireSeconds(config)

\* C12: whenever the configured access lifetime is shorter than the
\* configured refresh lifetime, the access token of every pair issued (by
\* login or by refresh) has an exp strictly less than the exp of the
\* refresh token of that pair.
C12_AccessExpiresFirst ==
    AccessExpireSeconds(config) < RefreshExpireSeconds(config)
    => \A p \in NewPairs \cup (IF pair = NoPair THEN {} ELSE {pair}) :
         /\ Decoded(p.access_token).payload.exp < Decoded(p.refresh_token).payload.exp
         /\ p.access_token.claims.exp.n < p.refresh_token.claims.exp.n

\* C12 witness: a pair was issued while the clock advanced between its two
\* tokens, under a configuration with the shorter access lifetime.
C12_Witness ==
    /\ call.op = "create_token_pair"
    /\ AccessExpireSeconds(config) < RefreshExpireSeconds(config)
    /\ call.t2 > call.t1
    /\ call.res.access_token.claims.exp.n < call.res.refresh_token.claims.exp.n

C14_RefreshFailure ==
    (call.op = "refresh_token" /\ PositiveLifetimes)
    => LET tk == call.token IN
       /\ (Genuine(tk) /\ HandlerClaims(tk) /\ tk.claims.token_type = "refresh"
             /\ call.at >= tk.claims.exp.n)
            => call.res.kind = "TokenExpiredError"
       /\ ~Genuine(tk) => call.res.kind = "TokenInvalidError"
       /\ (Genuine(tk) /\ HandlerClaims(tk) /\ tk.claims.token_type = "access"
             /\ call.at < tk.claims.exp.n)
            => call.res.kind = "TokenInvalidError"
       /\ call.res.kind # "ok"
            => /\ call.res.pair = NoPair
               /\ call.res.kind = decode_token(config, tk, "refresh", call.at).kind

\* C15: refresh_token succeeds for the client's refresh token at every
\* clock value before that token's exp, however often the token was used
\* before, and returns a pair of tokens that verify; the tokens the client
\* holds verify before their exp whatever was refreshed in between; and
\* no step changes the handler's only state, its configuration.
C15_RefreshReusable ==
    /\ [](/\ (/\ call.op = "refresh_token"
              /\ call.token.claims.token_type = "refresh"
              /\ Genuine(call.token)
              /\ call.at < call.token.claims.exp.n)
             => /\ call.res.kind = "ok"
                /\ \A tk \in Issued(call.res.pair) : Decoded(tk).kind = "ok"
          /\ (/\ call.op = "decode_token"
              /\ call.token \in Issued(pair)
              /\ call.token.claims.token_type = call.expected_type
              /\ call.at < call.token.claims.exp.n)
             => call.res.kind = "ok")
    /\ [][config' = config]_vars

\* C15 witness: a refresh token already used MaxReuse times was used once
\* more, at a later clock value than its first use, and a pair came back.
C15_Witness ==
    /\ call.op = "refresh_token"
    /\ call.used = MaxReuse
    /\ call.at > call.token.claims.iat.n
    /\ call.res.kind = "ok"

\* C16 (as claimed): under a configuration whose access lifetime is shorter
\* than its refresh lifetime, the access token of a pair verifies, with the
\* issued subject, at the clock value at which the pair was returned; and
\* at a clock value past the access token's exp and before the refresh
\* token's exp the access token is expired, refresh_token with the paired
\* refresh token succeeds, and the new access token verifies at that value.
C16_Recovery ==
    (pair # NoPair /\ AccessExpireSeconds(config) < RefreshExpireSeconds(config))
    => /\ (/\ call.op = "decode_token"
           /\ call.token = pair.access_token
           /\ call.expected_type = "access"
           /\ call.at = pair.refresh_token.claims.iat.n)
          => /\ call.res.kind = "ok"
             /\ call.res.payload.sub = Str(who.user_id)
       /\ (/\ call.op = "refresh_token"
           /\ call.token = pair.refresh_token
           /\ call.at > pair.access_token.claims.exp.n
           /\ call.at < pair.refresh_token.claims.exp.n)
          => /\ decode_token(config, pair.access_token, "access", call.at).kind
                  = "TokenExpiredError"
             /\ call.res.kind = "ok"
             /\ decode_token(config, call.res.pair.access_token, "access", call.at).kind
                  = "ok"

\* path.startswith(w) for one of the WHITELIST entries w, character by
\* character.
StartsWithEntry(path) ==
    \E i \in 1..Len(WHITELIST) :
       /\ Len(WHITELIST[i]) <= Len(path)
       /\ \A k \in 1..Len(WHITELIST[i]) : path[k] = WHITELIST[i][k]

\* C17: a request without Authorization header is passed to the next
\* handler if and only if its path starts, character for character, with
\* one of the WHITELIST entries; otherwise it is answered 401 with the
\* missing-token message.
C17_AllowList ==
    (call.op = "dispatch" /\ ~call.header.present)
    => /\ call.res.next_calls = 1 <=> StartsWithEntry(call.path)
       /\ StartsWithEntry(call.path) => call.res.outcome = "ALLOWED_PATH"
       /\ ~StartsWithEntry(call.path)
            => /\ call.res.status = 401
               /\ call.res.message = MsgMissing
               /\ call.res.next_calls = 0

\* C17 witness: /healthz, no entry of the list but starting with one, was
\* passed through without header.
C17_Witness ==
    /\ call.op = "dispatch"
    /\ ~call.header.present
    /\ call.path = PathHealth \o <<"z">>
    /\ call.res.next_calls = 1

\* An Authorization header from which dispatch takes a bearer credential.
BearerExtracted(h) ==
    /\ h.present
    /\ Len(h.scheme) >= Len(Bearer)
    /\ SubSeq(h.scheme, 1, Len(Bearer)) = Bearer

\* C18: on a path outside the allow-list the message is the expired one
\* exactly when decode_token raised TokenExpiredError for the extracted
\* credential, the invalid one exactly when it raised TokenInvalidError,
\* the missing one exactly when no credential was extracted; each comes
\* with status 401 and without a call of the next handler, and the three
\* messages differ.
C18_ErrorMapping ==
    (call.op = "dispatch" /\ ~StartsWithEntry(call.path))
    => LET h == call.header
           v == IF BearerExtracted(h)
                THEN decode_token(config, HeaderToken(h), "access", call.at).kind
                ELSE "none"
           r == call.res
       IN /\ r.message = MsgExpired <=> v = "TokenExpiredError"
          /\ r.message = MsgInvalid <=> v = "TokenInvalidError"
          /\ r.message = MsgMissing <=> ~BearerExtracted(h)
          /\ r.message \in {MsgExpired, MsgInvalid, MsgMissing}
               => (r.status = 401 /\ r.next_calls = 0)
          /\ Cardinality({MsgExpired, MsgInvalid, MsgMissing}) = 3

\* C18 witness: an access token past its exp was answered with the expired
\* message.
C18_Witness ==
    /\ call.op = "dispatch"
    /\ pair # NoPair
    /\ call.header = Header(Bearer, pair.access_token)
    /\ call.at > pair.access_token.claims.exp.n
    /\ call.res.message = MsgExpired

\* C19: when dispatch calls the next handler for a path outside the
\* allow-list, request.state holds the sub and the extra of the access
\* token sent on that request; when it does not call the next handler,
\* request.state holds neither.
C19_IdentityInjection ==
    (call.op = "dispatch" /\ ~StartsWithEntry(call.path))
    => /\ call.res.next_calls = 1
            => /\ BearerExtracted(call.header)
               /\ call.header.hasCred
               /\ call.header.cred.claims.token_type = "access"
               /\ call.res.identity.set
               /\ call.res.identity.user_id = call.header.cred.claims.sub
               /\ call.res.identity.user_extra = call.header.cred.claims.extra
       /\ call.res.next_calls = 0 => call.res.identity = NoIdentity

\* C19 witness: the request of the client logged in as user 7 with role
\* level_1 reached the next handler.
C19_Witness ==
    /\ call.op = "dispatch"
    /\ ~StartsWithEntry(call.path)
    /\ call.res.next_calls = 1
    /\ call.res.identity.user_id = PyStr("7")
    /\ call.res.identity.user_extra = RoleLevel1

\* C20: the check of require_role(r1..rn) passes if and only if the
\* request state holds a user_extra with a role equal to one of r1..rn;
\* otherwise (another role, no role, no identity) it raises 403 with the
\* insufficient-permission detail.
C20_RoleGuard ==
    call.op = "require_role"
    => LET has == /\ call.state.set
                  /\ ~call.state.user_extra.none
                  /\ \E kv \in call.state.user_extra.items :
                        /\ kv[1] = "role"
                        /\ \E i \in 1..Len(call.roles) : call.roles[i] = kv[2]
       IN /\ call.res.passed <=> has
          /\ ~has => (call.res.status = 403 /\ call.res.detail = MsgForbidden)

\* C20 witness: role level_1 passed the check of
\* require_role("admin", "level_1").
C20_Witness ==
    /\ call.op = "require_role"
    /\ call.roles = <<"admin", "level_1">>
    /\ call.state.user_extra = RoleLevel1
    /\ call.res.passed

\* C22: on a path outside the allow-list the credential counts as missing
\* (401, missing-token message, no verification outcome) when the header
\* is absent, empty, or does not start with the 7 characters "Bearer " in
\* exactly this case; otherwise what is verified is the header value
\* without its first 7 characters.
C22_BearerExtraction ==
    (call.op = "dispatch" /\ ~StartsWithEntry(call.path))
    => LET h == call.header
           r == call.res
           starts == /\ Len(h.scheme) >= BearerSlice
                     /\ \A k \in 1..BearerSlice : h.scheme[k] = Bearer[k]
           missing == ~h.present \/ (h.scheme = << >> /\ ~h.hasCred) \/ ~starts
           rest == IF Len(h.scheme) = BearerSlice /\ h.hasCred THEN h.cred
                   ELSE Unparsable
           d == decode_token(config, rest, "access", call.at)
       IN /\ Len(Bearer) = BearerSlice
          /\ missing => /\ r.outcome = "TOKEN_MISSING"
                        /\ r.status = 401
                        /\ r.message = MsgMissing
                        /\ r.next_calls = 0
          /\ ~missing => /\ r.outcome # "TOKEN_MISSING"
                         /\ r.outcome = "TOKEN_VALID" <=> d.kind = "ok"
                         /\ r.outcome = "TOKEN_EXPIRED" <=> d.kind = "TokenExpiredError"
                         /\ r.outcome = "TOKEN_INVALID" <=> d.kind = "TokenInvalidError"
                         /\ r.outcome = "TOKEN_VALID"
                              => r.identity.user_id = d.payload.sub

\* C22 witness: a valid access token sent with the scheme in lower case
\* was answered as missing.
C22_Witness ==
    /\ call.op = "dispatch"
    /\ pair # NoPair
    /\ ~StartsWithEntry(call.path)
    /\ call.header = Header(<<"b", "e", "a", "r", "e", "r", " ">>, pair.access_token)
    /\ call.at < pair.access_token.claims.exp.n
    /\ call.res.outcome = "TOKEN_MISSING"

\* C27: on a path matching the allow-list dispatch calls the next handler
\* without attaching user_id or user_extra, whatever the Authorization
\* header holds, and the check of require_role on such a path raises 403
\* for every caller.
C27_AllowedPathNoIdentity ==
    /\ (call.op = "dispatch" /\ StartsWithEntry(call.path))
       => /\ call.res.outcome = "ALLOWED_PATH"
          /\ call.res.next_calls = 1
          /\ call.res.identity = NoIdentity
    /\ (call.op = "require_role" /\ StartsWithEntry(call.path))
       => /\ call.state = NoIdentity
          /\ ~call.res.passed
          /\ call.res.status = 403

\* C27 witness: an admin's valid access token on /health, refused by
\* require_role("admin").
C27_Witness ==
    /\ call.op = "require_role"
    /\ pair # NoPair
    /\ call.path = PathHealth
    /\ call.header = Header(Bearer, pair.access_token)
    /\ call.at < pair.access_token.claims.exp.n
    /\ who.extra = RoleAdmin
    /\ call.roles = <<"admin">>
    /\ call.res.status = 403

\* C28: the refresh token of every pair refresh_token returns expires at
\* the clock value of the refresh plus the configured refresh lifetime,
\* whatever the exp of the token presented, hence later than the presented
\* token by the time elapsed since that one was issued; with a positive
\* refresh lifetime it verifies from the refresh on to the second before
\* its exp.
C28_SlidingSession ==
    (call.op = "refresh_token" /\ call.res.kind = "ok")
    => LET new == call.res.pair.refresh_token
           old == call.token
       IN /\ new.claims.exp.n = now + RefreshExpireSeconds(config)
          /\ new.claims.exp.n - old.claims.exp.n = now - old.claims.iat.n
          /\ RefreshExpireSeconds(config) > 0
               => \A t \in {now, now + 1, new.claims.exp.n - 1} :
                     decode_token(config, new, "refresh", t).kind = "ok"

\* C28 witness: a refresh token already used before was refreshed late in
\* its life, and the new refresh token outlives it.
C28_Witness ==
    /\ call.op = "refresh_token"
    /\ call.res.kind = "ok"
    /\ call.used > 0
    /\ call.at >= call.token.claims.iat.n + SecondsPerDay - 1
    /\ call.res.pair.refresh_token.claims.exp.n > call.token.claims.exp.n

\* C29 (as claimed, under positive configured lifetimes): for every bearer
\* token, dispatch and the dependency of make_jwt_depends both accept it
\* with the same sub and extra, or both report it expired, or both report
\* it invalid, each with 401 and the same message.
C29_EntryPointsAgree ==
    (call.op = "entry_points" /\ PositiveLifetimes)
    => LET g == call.gate
           d == call.dep
       IN \/ /\ g.outcome = "TOKEN_VALID"
             /\ d.outcome = "TOKEN_VALID"
             /\ g.identity.user_id = d.payload.sub
             /\ g.identity.user_extra = d.payload.extra
          \/ /\ g.outcome = "TOKEN_EXPIRED" /\ g.status = 401 /\ g.message = MsgExpired
             /\ d.outcome = "TOKEN_EXPIRED" /\ d.status = 401 /\ d.detail = MsgExpired
          \/ /\ g.outcome = "TOKEN_INVALID" /\ g.status = 401 /\ g.message = MsgInvalid
             /\ d.outcome = "TOKEN_INVALID" /\ d.status = 401 /\ d.detail = MsgInvalid

\* What request q's gate and guard yield when q is handled alone at the
\* clock value of its gate step.
Alone(q) ==
    LET g == dispatch(config, q.path, q.header, q.at) IN
    [gate |-> g.outcome, identity |-> g.identity,
     passed |-> g.next_calls = 1 /\ require_role(q.roles, g.identity).passed]

\* C21: under every interleaving, the gate outcome of a request is the one
\* it has alone, the identity its guard and its handler read is the one
\* the gate derived from its own token, and the guard's verdict is the one
\* it has alone; and no step writes the handler's configuration.
C21_RequestIsolation ==
    /\ [](\A r \in Requests :
            LET q == reqs[r] IN
            /\ q.pc \in {"rejected", "gated", "guarded", "forbidden", "handled"}
                 => /\ q.gate = Alone(q).gate
                    /\ q.pc = "rejected" <=> Alone(q).gate \notin {"ALLOWED_PATH", "TOKEN_VALID"}
            /\ q.pc \in {"guarded", "forbidden", "handled"}
                 => /\ q.seen = Alone(q).identity
                    /\ q.pc = "forbidden" <=> ~Alone(q).passed
            /\ q.pc = "handled" => q.read = Alone(q).identity)
    /\ [][config' = config]_vars

\* C21 witness: the guard of r1 ran while r2, carrying another user's
\* identity, was between its gate and its guard.
C21_Witness ==
    /\ reqs["r1"].among = {"r2"}
    /\ reqs["r1"].seen.set
    /\ rstate["r2"].set
    /\ reqs["r1"].seen.user_id # rstate["r2"].user_id

Running == {c \in Callers : callers[c] = "running"}
Waiting == {c \in Callers : callers[c] = "waiting"}

\* C23: at most max_concurrent bodies are in progress in every state; a
\* body starts only for a caller that called or waited, and only while
\* fewer than max_concurrent are in progress; a caller is answered 503
\* only out of waiting, under a timeout, and its body never runs.
C23_ConcurrencyLimit ==
    /\ [](/\ Cardinality(Running) <= limiter.max_concurrent
          /\ limiter.semaphore = limiter.max_concurrent - Cardinality(Running))
    /\ [][\A c \in Callers :
            /\ (callers'[c] = "running" /\ callers[c] # "running")
                 => /\ callers[c] \in {"idle", "waiting"}
                    /\ Cardinality(Running) < limiter.max_concurrent
            /\ (callers'[c] = "rejected" /\ callers[c] # "rejected")
                 => (callers[c] = "waiting" /\ limiter.timeout)
            /\ callers[c] = "rejected" => callers'[c] = "rejected"]_vars

\* C23 witness: max_concurrent bodies run, one caller waits, and one was
\* answered 503.
C23_Witness ==
    /\ Cardinality(Running) = limiter.max_concurrent
    /\ Waiting # {}
    /\ \E c \in Callers : callers[c] = "rejected"

\* C30 (as claimed): waiting_count is the number of callers suspended in
\* acquire(), and total_requests the number of acquire() calls started.
C30_Bookkeeping ==
    /\ limiter.waiting_count = Cardinality(Waiting)
    /\ limiter.total_requests = Cardinality({c \in Callers : callers[c] # "idle"})

\* C24: every ID generate() returns is greater than the ID returned by the
\* call that held the lock before it, also when the sequence wraps within
\* one millisecond; generate() raises, returns no ID and leaves the
\* generator as it was exactly when the clock reads earlier than
\* last_timestamp.
C24_SnowflakeIncreasing ==
    sf_call.op = "generate"
    => /\ sf_call.kind = "raise" <=> sf_call.at < sf_call.last
       /\ sf_call.kind = "raise"
            => /\ sf_call.id = -1
               /\ sf.last_timestamp = sf_call.last
               /\ sf.sequence = sf_call.seq
       /\ sf_call.kind = "id"
            => /\ sf_call.id > sf_call.prev
               /\ sf_call.id >= 0
               /\ sf.last_timestamp >= sf_call.last

\* C24 witness: the sequence wrapped: an ID was returned by a call that
\* started in the millisecond in which 2^12 IDs had already been returned.
C24_Witness ==
    /\ sf_call.op = "generate"
    /\ sf_call.kind = "id"
    /\ sf_call.at = sf_call.last
    /\ sf_call.seq = 2^SequenceBits - 1
    /\ sf_call.id > sf_call.prev

\* C25 (as claimed): the wrapper of async_retry ends by returning the
\* result of the first successful attempt, after which nothing more is
\* attempted, or, when max_retries attempts have failed, by raising the
\* exception of the last attempt; it makes no more than max_retries
\* attempts and sleeps once between consecutive attempts, not after the
\* last.
C25_Retry ==
    /\ retry.tries <= retry.max_retries
    /\ retry.pc = "done"
       => /\ retry.out.kind \in {"return", "raise"}
          /\ retry.out.kind = "return"
               => (retry.tries = Len(retry.log) + 1 /\ retry.sleeps = Len(retry.log))
          /\ retry.out.kind = "raise"
               => /\ retry.tries = retry.max_retries
                  /\ Len(retry.log) = retry.max_retries
                  /\ retry.out.exc = retry.log[Len(retry.log)]
                  /\ retry.sleeps = retry.max_retries - 1

\* C26 (as claimed): at most one authenticate call succeeds with the code
\* stored for the identifier.
C26_OneTimeCode ==
    Cardinality({a \in Sessions : auth[a].ok}) <= 1

====
